---------------------------- MODULE Spec2Model ----------------------------
(***************************************************************************)
(* Resumable annotation pipeline of uzudt: scripts/annotate_batch.py with  *)
(* uzudt/annotator.py, uzudt/openai_client.py and uzudt/validator.py.      *)
(*                                                                         *)
(* Text is modelled as a sequence of symbols.  A symbol is one character   *)
(* ("a", "1", "\n", "\t", " ") or a fixed literal of the source that is    *)
(* never split ("# sent_id = auto-", "# text = ", "dep", ...).             *)
(***************************************************************************)
EXTENDS Integers, Sequences, FiniteSets, TLC

(***************************************************************************)
(* Bounds of the model.                                                    *)
(***************************************************************************)
MaxSentences == 3
MaxRuns == 2
MaxTokens == 2
MaxCorpusLines == 3

(***************************************************************************)
(* Symbols.                                                                *)
(***************************************************************************)
NL == "\n"
TAB == "\t"
SP == " "
SentIdPrefix == "# sent_id = auto-"
TextPrefix == "# text = "
Whitespace == {SP, TAB, NL}
Digits == <<"0", "1", "2", "3", "4", "5", "6", "7", "8", "9">>
DigitSyms == {Digits[k] : k \in 1..10}
DigitVal(c) == (CHOOSE k \in 1..10 : Digits[k] = c) - 1

(***************************************************************************)
(* Python string and integer primitives used by the source.                *)
(***************************************************************************)
\* str.strip(): drop leading and trailing whitespace
RECURSIVE LStrip(_)
LStrip(s) ==
    IF s # <<>> /\ Head(s) \in Whitespace THEN LStrip(Tail(s)) ELSE s

RECURSIVE RStrip(_)
RStrip(s) ==
    IF s # <<>> /\ s[Len(s)] \in Whitespace
    THEN RStrip(SubSeq(s, 1, Len(s) - 1))
    ELSE s

Strip(s) == RStrip(LStrip(s))

\* str.startswith(prefix)
StartsWith(s, prefix) ==
    /\ Len(s) >= Len(prefix)
    /\ SubSeq(s, 1, Len(prefix)) = prefix

\* the pieces of s[lo..hi] between the occurrences of sep (by halves, so
\* that long texts do not nest deeply)
RECURSIVE SplitRange(_, _, _, _)
SplitRange(s, lo, hi, sep) ==
    IF lo > hi THEN << <<>> >>
    ELSE IF lo = hi
    THEN (IF s[lo] = sep THEN << <<>>, <<>> >> ELSE << <<s[lo]>> >>)
    ELSE LET mid == (lo + hi) \div 2
             L == SplitRange(s, lo, mid, sep)
             R == SplitRange(s, mid + 1, hi, sep)
         IN  SubSeq(L, 1, Len(L) - 1) \o <<L[Len(L)] \o R[1]>> \o Tail(R)

\* str.split(sep)
SplitBy(s, sep) == SplitRange(s, 1, Len(s), sep)

\* str.splitlines() / iteration over the lines of a text file: the pieces
\* between line breaks, without a trailing empty piece
SplitLines(s) ==
    LET p == SplitBy(s, NL)
    IN  IF p[Len(p)] = <<>> THEN SubSeq(p, 1, Len(p) - 1) ELSE p

\* str(n) for an int n
RECURSIVE NatToStr(_)
NatToStr(n) ==
    IF n < 10 THEN <<Digits[n + 1]>>
    ELSE NatToStr(n \div 10) \o <<Digits[(n % 10) + 1]>>

IntToStr(n) == IF n < 0 THEN <<"-">> \o NatToStr(-n) ELSE NatToStr(n)

RECURSIVE DigitsToNat(_, _)
DigitsToNat(s, acc) ==
    IF s = <<>> THEN acc ELSE DigitsToNat(Tail(s), 10 * acc + DigitVal(Head(s)))

\* int(s) for a str s: surrounding whitespace, an optional sign, digits.
\* ok = FALSE stands for ValueError.
PyIntOfStr(s) ==
    LET t == Strip(s)
        signed == t # <<>> /\ Head(t) \in {"-", "+"}
        body == IF signed THEN Tail(t) ELSE t
        good == body # <<>> /\ \A k \in 1..Len(body) : body[k] \in DigitSyms
        mag == IF good THEN DigitsToNat(body, 0) ELSE 0
    IN  [ok |-> good,
         val |-> IF signed /\ Head(t) = "-" THEN -mag ELSE mag]

\* str.lower() on the letters of the model's alphabet
LowerSym(c) ==
    CASE c = "K" -> "k"
      [] c = "I" -> "i"
      [] c = "B" -> "b"
      [] OTHER -> c

Lower(s) == [k \in 1..Len(s) |-> LowerSym(s[k])]

\* sep.join(parts)
RECURSIVE Join(_, _)
Join(sep, parts) ==
    IF parts = <<>> THEN <<>>
    ELSE IF Len(parts) = 1 THEN Head(parts)
    ELSE Head(parts) \o sep \o Join(sep, Tail(parts))

(***************************************************************************)
(* JSON values of a token object, as json.loads returns them.              *)
(***************************************************************************)
JInt(n) == [k |-> "int", i |-> n, s |-> <<>>]
JStr(x) == [k |-> "str", i |-> 0, s |-> x]
JNull == [k |-> "null", i |-> 0, s |-> <<>>]

\* int(v): ok = FALSE stands for ValueError / TypeError
PyInt(v) ==
    CASE v.k = "int" -> [ok |-> TRUE, val |-> v.i]
      [] v.k = "str" -> PyIntOfStr(v.s)
      [] OTHER -> [ok |-> FALSE, val |-> 0]

\* str(v)
PyStr(v) ==
    CASE v.k = "int" -> IntToStr(v.i)
      [] v.k = "str" -> v.s
      [] OTHER -> <<"None">>

\* dict.get(key, default)
Get(t, key, default) == IF key \in DOMAIN t THEN t[key] ELSE default

(***************************************************************************)
(* uzudt/annotator.py: tokens_to_conllu                                    *)
(***************************************************************************)
\* variant: the lemma defaults to the surface form as it is
TokenLineNoLower(t) ==
    IF "ID" \notin DOMAIN t \/ "FORM" \notin DOMAIN t
    THEN [raised |-> TRUE, line |-> <<>>]
    ELSE
      LET tid == PyInt(t["ID"])
          form == PyStr(t["FORM"])
          lemma == PyStr(Get(t, "LEMMA", JStr(form)))
          upos == PyStr(Get(t, "UPOS", JStr(<<"X">>)))
          head_id == PyInt(Get(t, "HEAD ID", JInt(0)))
          deprel == PyStr(Get(t, "DEPREL", JStr(<<"dep">>)))
      IN  IF ~tid.ok \/ ~head_id.ok
          THEN [raised |-> TRUE, line |-> <<>>]
          ELSE [raised |-> FALSE,
                line |-> Join(<<TAB>>,
                              <<IntToStr(tid.val), form, lemma, upos, <<"_">>,
                                <<"_">>, IntToStr(head_id.val), deprel,
                                <<"_">>, <<"_">>>>)]

\* one pass of the loop body for token t: raised, or the ten-column line
TokenLine(t) ==
    IF "ID" \notin DOMAIN t \/ "FORM" \notin DOMAIN t
    THEN [raised |-> TRUE, line |-> <<>>]
    ELSE
      LET tid == PyInt(t["ID"])
          form == PyStr(t["FORM"])
          lemma == PyStr(Get(t, "LEMMA", JStr(Lower(form))))
          upos == PyStr(Get(t, "UPOS", JStr(<<"X">>)))
          xpos == <<"_">>
          feats == <<"_">>
          head_id == PyInt(Get(t, "HEAD ID", JInt(0)))
          deprel == PyStr(Get(t, "DEPREL", JStr(<<"dep">>)))
          deps == <<"_">>
          misc == <<"_">>
      IN  IF ~tid.ok \/ ~head_id.ok
          THEN [raised |-> TRUE, line |-> <<>>]
          ELSE [raised |-> FALSE,
                line |-> Join(<<TAB>>,
                              <<IntToStr(tid.val), form, lemma, upos, xpos,
                                feats, IntToStr(head_id.val), deprel, deps,
                                misc>>)]

\* a conversion that leaves out the tokens it cannot convert and returns the
\* lines of the others
TokensToConlluSkipMalformed(toks) ==
    LET res == [k \in 1..Len(toks) |-> TokenLine(toks[k])]
        kept == SelectSeq(res, LAMBDA r : ~r.raised)
    IN  [raised |-> FALSE,
         text |-> Join(<<NL>>, [k \in 1..Len(kept) |-> kept[k].line])
                    \o <<NL>>]

\* raised = TRUE stands for the exception leaving the function (no value is
\* returned); otherwise text is the returned CoNLL-U string
tokens_to_conllu(toks) ==
    LET res == [k \in 1..Len(toks) |-> TokenLine(toks[k])]
    IN  IF \E k \in 1..Len(toks) : res[k].raised
        THEN [raised |-> TRUE, text |-> <<>>]
        ELSE [raised |-> FALSE,
              text |-> Join(<<NL>>, [k \in 1..Len(toks) |-> res[k].line])
                         \o <<NL>>]


(***************************************************************************)
(* State.                                                                  *)
(***************************************************************************)
VARIABLES
    rawInput,      \* content of data/raw/uz_sentences.txt
    gold,          \* content of data/gold/uzudt_auto.conllu
    goldExists,    \* whether the gold file exists
    promptExists,  \* whether prompts/uz_prompt.txt exists
    pc,            \* position of main(): "Idle", "Annotating", "Converting",
                   \* "Validating", "Validated", "Halted", "Done"
    override,      \* args.start_from of the current run
    inferred_start,
    start_from,
    i,             \* loop index of main()
    tokens,
    conllu_str,
    ok,
    runs,          \* number of runs started so far
    \* history of the current run, kept for the properties
    goldAtStart,   \* gold when the run started
    goldBefore,    \* gold when the loop body for sentence i was entered
    attempted,     \* indices whose loop body was entered in this run
    annotated,     \* indices for which the annotation service was called
    validated,     \* indices for which the validator was invoked
    runLogs,       \* names of the files written to data/logs in this run
    halt,          \* where and why the run stopped
    prevRun,       \* how the previous run ended
    passed,        \* the blocks whose validation returned ok = TRUE, in order
    overrideUsed   \* whether any run so far was given --start-from

vars == <<rawInput, gold, goldExists, promptExists, pc, override,
          inferred_start, start_from, i, tokens, conllu_str, ok, runs,
          goldAtStart, goldBefore, attempted, annotated, validated, runLogs,
          halt, prevRun, passed, overrideUsed>>

NoOverride == [given |-> FALSE, v |-> 0]
NoHalt == [idx |-> 0, kind |-> "none", reason |-> "none"]

(***************************************************************************)
(* scripts/annotate_batch.py                                               *)
(***************************************************************************)
\* read_sentences: stripped, non-blank lines
read_sentences(text) ==
    LET lines == SplitLines(text)
        stripped == [k \in 1..Len(lines) |-> Strip(lines[k])]
    IN  SelectSeq(stripped, LAMBDA l : l # <<>>)

\* line.split("auto-")[-1]: what follows the last "auto-" of the line
AutoEnd == {SentIdPrefix, "auto-"}

RECURSIVE AfterLastAuto(_)
AfterLastAuto(line) ==
    IF \E k \in 1..Len(line) : line[k] \in AutoEnd
    THEN AfterLastAuto(Tail(line))
    ELSE line

RECURSIVE ScanLast(_, _)
\* variant: the last header seen wins
ScanLastSeen(lines, last) ==
    IF lines = <<>> THEN last
    ELSE
      LET line == Strip(Head(lines))
          n == PyIntOfStr(AfterLastAuto(line))
      IN  IF StartsWith(line, <<SentIdPrefix>>) /\ n.ok
          THEN ScanLast(Tail(lines), n.val)
          ELSE ScanLast(Tail(lines), last)

\* the loop of get_last_processed_index over the lines of the file
ScanLast(lines, last) ==
    IF lines = <<>> THEN last
    ELSE
      LET line == Strip(Head(lines))
          n == PyIntOfStr(AfterLastAuto(line))
      IN  IF StartsWith(line, <<SentIdPrefix>>) /\ n.ok /\ n.val > last
          THEN ScanLast(Tail(lines), n.val)
          ELSE ScanLast(Tail(lines), last)

\* a resolver that never finds a header
LastIndexAlwaysZero(exists, text) == 0

get_last_processed_index(exists, text) ==
    IF ~exists THEN 0 ELSE ScanLast(SplitLines(text), 0)

\* variant: a run without override resumes one past the inferred start
ResumeIndexSkipsOne(ov, inferred) ==
    LET chosen == IF ov.given THEN ov.v ELSE inferred + 1
    IN  IF chosen < 1 THEN 1 ELSE chosen

\* variant: the override is ignored
ResumeIndexIgnoresOverride(ov, inferred) ==
    IF inferred < 1 THEN 1 ELSE inferred

\* the resume index (lines 134-137): the override if given, else the
\* inferred start, and at least 1
ResumeIndex(ov, inferred) ==
    LET chosen == IF ov.given THEN ov.v ELSE inferred
    IN  IF chosen < 1 THEN 1 ELSE chosen

\* variant: the header carries the 0-based index
GoldBlockZeroBased(idx, sent, rec) ==
    <<SentIdPrefix>> \o IntToStr(idx - 1) \o <<NL>>
      \o <<TextPrefix>> \o sent \o <<NL>>
      \o rec
      \o <<NL>>

\* the four writes of a commit
GoldBlock(idx, sent, rec) ==
    <<SentIdPrefix>> \o IntToStr(idx) \o <<NL>>
      \o <<TextPrefix>> \o sent \o <<NL>>
      \o rec
      \o <<NL>>

\* variant: the file is opened in mode "w"
OpenGoldTruncating(text) == <<>>

\* GOLD_PATH.open("a"): the content is kept, the file is created if missing
OpenGold(text) == text

\* names of the diagnostic files of sentence idx
ExceptionLog(idx) == {[idx |-> idx, kind |-> "exception.txt"]}
\* a failure branch that forgets the validator's log
InvalidLogsNoValLog(idx) ==
    {[idx |-> idx, kind |-> k] : k \in {"json", "conllu"}}
InvalidLogs(idx) ==
    {[idx |-> idx, kind |-> k] : k \in {"json", "conllu", "val.log"}}

\* an adapter that goes on without the prompt file
AnnotateWithoutPromptFile(promptOK, reply) ==
    IF reply.kind = "client"
    THEN [raised |-> TRUE, reason |-> "client", toks |-> <<>>]
    ELSE IF reply.kind = "error"
    THEN [raised |-> TRUE, reason |-> "service", toks |-> <<>>]
    ELSE IF reply.kind = "text"
    THEN [raised |-> TRUE, reason |-> "json", toks |-> <<>>]
    ELSE IF reply.kind # "array"
    THEN [raised |-> TRUE, reason |-> "shape", toks |-> <<>>]
    ELSE [raised |-> FALSE, reason |-> "none", toks |-> reply.toks]

(***************************************************************************)
(* uzudt/openai_client.py: annotate_sentence_with_llm                      *)
(*   promptOK: prompts/uz_prompt.txt can be read                           *)
(*   reply:    what the client and the service do: kind "client" (OpenAI() *)
(*             raises), "error" (the request raises), "text" (not JSON),   *)
(*             "object" (JSON, not an array) or "array" (a JSON array,     *)
(*             toks)                                                       *)
(***************************************************************************)
annotate_sentence_with_llm(promptOK, reply) ==
    IF reply.kind = "client"
    THEN [raised |-> TRUE, reason |-> "client", toks |-> <<>>]
    ELSE IF ~promptOK
    THEN [raised |-> TRUE, reason |-> "prompt", toks |-> <<>>]
    ELSE IF reply.kind = "error"
    THEN [raised |-> TRUE, reason |-> "service", toks |-> <<>>]
    ELSE IF reply.kind = "text"
    THEN [raised |-> TRUE, reason |-> "json", toks |-> <<>>]
    ELSE IF reply.kind # "array"
    THEN [raised |-> TRUE, reason |-> "shape", toks |-> <<>>]
    ELSE [raised |-> FALSE, reason |-> "none", toks |-> reply.toks]

(***************************************************************************)
(* Inputs.                                                                 *)
(***************************************************************************)
Tok(id, form) == ("ID" :> id) @@ ("FORM" :> form)
Kitob == <<"K", "i">>

\* replies of the annotation service used by the pipeline
LLMTokenLists ==
    { <<Tok(JInt(1), JStr(Kitob)) @@ ("UPOS" :> JStr(<<"N">>))
          @@ ("HEAD ID" :> JInt(0)) @@ ("DEPREL" :> JStr(<<"root">>))>>,
      <<("ID" :> JInt(1))>>,
      <<Tok(JInt(1), JStr(Kitob)), ("ID" :> JInt(2))>>,
      <<Tok(JStr(<<"x">>), JStr(Kitob))>> }

Replies ==
    {[kind |-> k, toks |-> <<>>] : k \in {"client", "error", "text", "object"}}
      \cup {[kind |-> "array", toks |-> t] : t \in LLMTokenLists}

\* outcomes of validate_conllu: it raises (validate.py is missing), or it
\* returns ok
ValidatorOutcomes == {"raise", "pass", "fail"}

Overrides ==
    {NoOverride} \cup {[given |-> TRUE, v |-> n] : n \in 0..(MaxSentences + 1)}

\* the input files: the first n sentences of a file with a blank line, a
\* padded line, a repeated sentence and no final line break
InputChunks ==
    << <<"a", NL, NL>>, <<SP, "b", SP, NL>>, <<"a", NL>>, <<"b", NL>>,
       <<"a", "b">> >>

RECURSIVE SeqsUpTo(_, _)
SeqsUpTo(S, n) ==
    IF n = 0 THEN {<<>>}
    ELSE LET shorter == SeqsUpTo(S, n - 1)
         IN  shorter \cup {Append(q, x) : q \in shorter, x \in S}

RECURSIVE Flatten(_)
Flatten(ss) == IF ss = <<>> THEN <<>> ELSE Head(ss) \o Flatten(Tail(ss))

InputFiles ==
    {Flatten(SubSeq(InputChunks, 1, n)) :
       n \in 0..(IF MaxSentences < Len(InputChunks) THEN MaxSentences
                 ELSE Len(InputChunks))}

(***************************************************************************)
(* Init: before the first run; the gold file does not exist yet.           *)
(***************************************************************************)
Locals ==
    /\ override = NoOverride
    /\ inferred_start = 1
    /\ start_from = 1
    /\ i = 0
    /\ tokens = <<>>
    /\ conllu_str = <<>>
    /\ ok = FALSE
    /\ attempted = <<>>
    /\ annotated = <<>>
    /\ validated = <<>>
    /\ runLogs = {}
    /\ halt = NoHalt
    /\ prevRun = [ran |-> FALSE, haltIdx |-> 0, given |-> FALSE]
    /\ overrideUsed = FALSE

Init ==
    /\ rawInput \in InputFiles
    /\ promptExists \in BOOLEAN
    /\ gold = <<>>
    /\ goldExists = FALSE
    /\ pc = "Idle"
    /\ runs = 0
    /\ goldAtStart = <<>>
    /\ goldBefore = <<>>
    /\ passed = <<>>
    /\ Locals

(***************************************************************************)
(* main(), up to the first loop body (lines 120-157)                       *)
(***************************************************************************)
StartRun ==
    /\ pc \in {"Idle", "Halted", "Done"}
    /\ runs < MaxRuns
    /\ \E ov \in Overrides :
         LET sentences == read_sentences(rawInput)
             total == Len(sentences)
             inferred == get_last_processed_index(goldExists, gold) + 1
             start == ResumeIndex(ov, inferred)
         IN  /\ override' = ov
             /\ overrideUsed' = (overrideUsed \/ ov.given)
             /\ inferred_start' = inferred
             /\ start_from' = start
             /\ IF start > total
                THEN /\ pc' = "Done"
                     /\ i' = 0
                     /\ attempted' = <<>>
                     /\ UNCHANGED <<gold, goldExists>>
                ELSE /\ pc' = "Annotating"
                     /\ i' = start
                     /\ attempted' = <<start>>
                     /\ gold' = OpenGold(gold)
                     /\ goldExists' = TRUE
    /\ runs' = runs + 1
    /\ prevRun' = [ran |-> runs > 0, haltIdx |-> halt.idx,
                    given |-> override.given]
    /\ goldAtStart' = gold
    /\ goldBefore' = gold'
    /\ tokens' = <<>>
    /\ conllu_str' = <<>>
    /\ ok' = FALSE
    /\ annotated' = <<>>
    /\ validated' = <<>>
    /\ runLogs' = {}
    /\ halt' = NoHalt
    /\ UNCHANGED <<rawInput, promptExists, passed>>

\* variant: the exception is logged and the loop goes on
SkipOnException(reason) ==
    /\ runLogs' = runLogs \cup ExceptionLog(i)
    /\ halt' = halt
    /\ IF i < Len(read_sentences(rawInput))
       THEN /\ i' = i + 1
            /\ attempted' = Append(attempted, i + 1)
            /\ pc' = "Annotating"
       ELSE /\ pc' = "Done"
            /\ UNCHANGED <<i, attempted>>
    /\ UNCHANGED <<gold, goldExists, passed>>

\* the except branch of the loop body (lines 163-172)
HaltOnException(reason) ==
    /\ runLogs' = runLogs \cup ExceptionLog(i)
    /\ halt' = [idx |-> i, kind |-> "exception", reason |-> reason]
    /\ pc' = "Halted"
    /\ UNCHANGED <<gold, goldExists, i, attempted, passed>>

\* annotate_one_sentence, line 91: the call of the annotation service
Annotate ==
    /\ pc = "Annotating"
    /\ annotated' = Append(annotated, i)
    /\ \E reply \in Replies :
         LET r == annotate_sentence_with_llm(promptExists, reply)
         IN  IF r.raised
             THEN /\ HaltOnException(r.reason)
                  /\ UNCHANGED <<tokens>>
             ELSE /\ tokens' = r.toks
                  /\ pc' = "Converting"
                  /\ UNCHANGED <<gold, goldExists, i, attempted,
                                 runLogs, halt, passed>>
    /\ UNCHANGED <<rawInput, promptExists, overrideUsed, override,
                   inferred_start, start_from, conllu_str, ok, runs,
                   goldAtStart, goldBefore, validated, prevRun>>

\* annotate_one_sentence, line 97: the conversion
Convert ==
    /\ pc = "Converting"
    /\ LET r == tokens_to_conllu(tokens)
       IN  IF r.raised
           THEN /\ HaltOnException("token")
                /\ UNCHANGED <<conllu_str>>
           ELSE /\ conllu_str' = r.text
                /\ pc' = "Validating"
                /\ UNCHANGED <<gold, goldExists, i, attempted,
                               runLogs, halt, passed>>
    /\ UNCHANGED <<rawInput, promptExists, overrideUsed,
                   override, inferred_start, start_from, tokens,
                   ok, runs, goldAtStart, goldBefore, annotated, validated,
                   prevRun>>

\* annotate_one_sentence, line 98: the validation
Validate ==
    /\ pc = "Validating"
    /\ validated' = Append(validated, i)
    /\ \E outcome \in ValidatorOutcomes :
         IF outcome = "raise"
         THEN /\ HaltOnException("validator")
              /\ UNCHANGED <<ok>>
         ELSE /\ ok' = (outcome = "pass")
              /\ pc' = "Validated"
              /\ passed' = IF outcome = "pass"
                           THEN Append(passed,
                                       [idx |-> i,
                                        sent |-> read_sentences(rawInput)[i],
                                        rec |-> conllu_str])
                           ELSE passed
              /\ UNCHANGED <<gold, goldExists, i, attempted, runLogs,
                             halt>>
    /\ UNCHANGED <<rawInput, promptExists, overrideUsed,
                   override, inferred_start, start_from, tokens,
                   conllu_str, runs, goldAtStart, goldBefore, annotated,
                   prevRun>>

\* variant: the block is appended whatever the validator said
AppendUnvalidated ==
    /\ pc = "Validated"
    /\ LET sentences == read_sentences(rawInput)
       IN  /\ gold' = gold \o GoldBlock(i, sentences[i], conllu_str)
           /\ IF i < Len(sentences)
              THEN /\ i' = i + 1
                   /\ attempted' = Append(attempted, i + 1)
                   /\ pc' = "Annotating"
              ELSE /\ pc' = "Done"
                   /\ UNCHANGED <<i, attempted>>
    /\ goldBefore' = gold'
    /\ UNCHANGED <<rawInput, promptExists, overrideUsed,
                   goldExists, override, inferred_start,
                   start_from, tokens, conllu_str, ok, runs, goldAtStart,
                   annotated, validated, runLogs, halt, prevRun, passed>>

\* variant: the run ends after the first commit
AppendThenStop ==
    /\ pc = "Validated"
    /\ ok
    /\ gold' = gold \o GoldBlock(i, read_sentences(rawInput)[i], conllu_str)
    /\ pc' = "Done"
    /\ goldBefore' = gold'
    /\ UNCHANGED <<rawInput, promptExists, overrideUsed,
                   goldExists, override, inferred_start,
                   start_from, i, tokens, conllu_str, ok, runs, goldAtStart,
                   attempted, annotated, validated, runLogs, halt, prevRun,
                   passed>>

\* variant: after a commit the loop moves on by two sentences
AppendStepsByTwo ==
    /\ pc = "Validated"
    /\ ok
    /\ LET sentences == read_sentences(rawInput)
       IN  /\ gold' = gold \o GoldBlock(i, sentences[i], conllu_str)
           /\ IF i + 1 < Len(sentences)
              THEN /\ i' = i + 2
                   /\ attempted' = Append(attempted, i + 2)
                   /\ pc' = "Annotating"
              ELSE /\ pc' = "Done"
                   /\ UNCHANGED <<i, attempted>>
    /\ goldBefore' = gold'
    /\ UNCHANGED <<rawInput, promptExists, overrideUsed, goldExists,
                   override, inferred_start, start_from, tokens, conllu_str,
                   ok, runs, goldAtStart, annotated, validated, runLogs,
                   halt, prevRun, passed>>

\* the ok branch (lines 174-180), and the step of the loop to the next
\* sentence or out of it
AppendToGold ==
    /\ pc = "Validated"
    /\ ok
    /\ LET sentences == read_sentences(rawInput)
       IN  /\ gold' = gold \o GoldBlock(i, sentences[i], conllu_str)
           /\ IF i < Len(sentences)
              THEN /\ i' = i + 1
                   /\ attempted' = Append(attempted, i + 1)
                   /\ pc' = "Annotating"
              ELSE /\ pc' = "Done"
                   /\ UNCHANGED <<i, attempted>>
    /\ goldBefore' = gold'
    /\ UNCHANGED <<rawInput, promptExists, overrideUsed,
                   goldExists, override, inferred_start,
                   start_from, tokens, conllu_str, ok, runs, goldAtStart,
                   annotated, validated, runLogs, halt, prevRun, passed>>

\* variant: the invalid sentence is logged and the loop goes on
SkipInvalid ==
    /\ pc = "Validated"
    /\ ~ok
    /\ runLogs' = runLogs \cup InvalidLogs(i)
    /\ IF i < Len(read_sentences(rawInput))
       THEN /\ i' = i + 1
            /\ attempted' = Append(attempted, i + 1)
            /\ pc' = "Annotating"
       ELSE /\ pc' = "Done"
            /\ UNCHANGED <<i, attempted>>
    /\ UNCHANGED <<rawInput, promptExists, overrideUsed,
                   gold, goldExists, override, inferred_start,
                   start_from, tokens, conllu_str, ok, runs, goldAtStart,
                   goldBefore, annotated, validated, halt, prevRun, passed>>

\* the else branch (lines 181-200)
HaltInvalid ==
    /\ pc = "Validated"
    /\ ~ok
    /\ runLogs' = runLogs \cup InvalidLogs(i)
    /\ halt' = [idx |-> i, kind |-> "invalid", reason |-> "validation"]
    /\ pc' = "Halted"
    /\ UNCHANGED <<rawInput, promptExists, overrideUsed,
                   gold, goldExists, override, inferred_start,
                   start_from, i, tokens, conllu_str, ok, runs, goldAtStart,
                   goldBefore, attempted, annotated, validated, prevRun,
                   passed>>

\* the operator removes or restores prompts/uz_prompt.txt
EditPrompt ==
    /\ promptExists' = ~promptExists
    /\ UNCHANGED <<rawInput, gold, goldExists, pc, override, inferred_start,
                   start_from, i, tokens, conllu_str, ok, runs, goldAtStart,
                   goldBefore, attempted, annotated, validated, runLogs,
                   halt, prevRun, passed, overrideUsed>>

Next ==
    \/ StartRun
    \/ EditPrompt
    \/ Annotate
    \/ Convert
    \/ Validate
    \/ AppendToGold
    \/ HaltInvalid

Spec == Init /\ [][Next]_vars

(***************************************************************************)
(* The Checkpoint Resolver on arbitrary (hand-edited) gold files: the run  *)
(* starts from a gold file made of up to MaxCorpusLines lines.             *)
(***************************************************************************)
Header(suffix) == <<SentIdPrefix>> \o suffix

CorpusLines ==
    { Header(<<"1">>), Header(<<"3">>), Header(<<"7">>),
      Header(<<"1", "0">>), Header(<<"x">>), Header(<<"3", "x">>),
      Header(<<>>), Header(<<"-", "2">>),
      <<SP, SentIdPrefix, "2", SP>>,
      <<"x", SentIdPrefix, "9">>,
      <<TextPrefix, "a">>,
      <<>> }

InitResolver ==
    /\ rawInput = Flatten(InputChunks)
    /\ promptExists = TRUE
    /\ \E exists \in BOOLEAN :
         /\ goldExists = exists
         /\ gold \in (IF exists
                      THEN {Join(<<NL>>, ls) \o <<NL>> :
                              ls \in SeqsUpTo(CorpusLines, MaxCorpusLines)
                                       \ {<<>>}} \cup {<<>>}
                      ELSE {<<>>})
    /\ pc = "Idle"
    /\ runs = 0
    /\ goldAtStart = <<>>
    /\ goldBefore = <<>>
    /\ passed = <<>>
    /\ Locals

SpecResolver == InitResolver /\ [][StartRun]_vars

(***************************************************************************)
(* The Record Converter on the token sequences of up to MaxTokens tokens:  *)
(* the pipeline stands before the conversion of the first sentence.        *)
(***************************************************************************)
OptionalFields ==
    { ("LEMMA" :> JStr(<<"K", "B">>)),
      ("UPOS" :> JStr(<<"N">>)),
      ("HEAD ID" :> JInt(2)),
      ("DEPREL" :> JStr(<<"root">>)) }

RECURSIVE Merge(_)
Merge(fs) ==
    IF fs = {} THEN <<>>
    ELSE LET f == CHOOSE g \in fs : TRUE IN f @@ Merge(fs \ {f})

ConvTokens ==
    {Tok(JInt(1), JStr(Kitob)) @@ Merge(fs) : fs \in SUBSET OptionalFields}
      \cup
    { Tok(JInt(12), JStr(<<"b">>)),
      Tok(JInt(2), JStr(<<"K", SP, "B">>)),
      Tok(JInt(2), JStr(<<"b">>)) @@ ("HEAD" :> JStr(Kitob)),
      Tok(JStr(<<"2">>), JStr(<<"b">>)),
      Tok(JInt(2), JInt(5)),
      Tok(JInt(2), JStr(<<"b">>)) @@ ("LEMMA" :> JNull),
      ("FORM" :> JStr(Kitob)),
      ("ID" :> JInt(2)),
      Tok(JStr(<<"x">>), JStr(<<"b">>)),
      Tok(JInt(2), JStr(<<"b">>)) @@ ("HEAD ID" :> JStr(<<"x">>)),
      Tok(JInt(2), JStr(<<"b">>)) @@ ("HEAD ID" :> JNull) }

InitConv ==
    /\ rawInput = Flatten(InputChunks)
    /\ promptExists = TRUE
    /\ overrideUsed = FALSE
    /\ gold = <<>>
    /\ goldExists = TRUE
    /\ pc = "Converting"
    /\ runs = 1
    /\ goldAtStart = <<>>
    /\ goldBefore = <<>>
    /\ passed = <<>>
    /\ override = NoOverride
    /\ inferred_start = 1
    /\ start_from = 1
    /\ i = 1
    /\ tokens \in SeqsUpTo(ConvTokens, MaxTokens)
    /\ conllu_str = <<>>
    /\ ok = FALSE
    /\ attempted = <<1>>
    /\ annotated = <<1>>
    /\ validated = <<>>
    /\ runLogs = {}
    /\ halt = NoHalt
    /\ prevRun = [ran |-> FALSE, haltIdx |-> 0, given |-> FALSE]

SpecConv == InitConv /\ [][Convert]_vars


(***************************************************************************)
(* Properties.  The corpus is read back independently of the code: a       *)
(* header is a line that, without surrounding whitespace, starts with      *)
(* "# sent_id = auto-", and its N is the rest of the line when that is the *)
(* decimal text of an integer.                                             *)
(***************************************************************************)
NRange == (0 - 10)..20
NOfText(t) == {n \in NRange : IntToStr(n) = t}
IsHeader(line) == StartsWith(line, <<SentIdPrefix>>)
IsTextLine(line) == StartsWith(line, <<TextPrefix>>)
StrippedLines(text) ==
    LET ls == SplitLines(text) IN [k \in 1..Len(ls) |-> Strip(ls[k])]

\* the N of the headers of a text that carry an integer, in file order
HeaderNums(text) ==
    LET hs == SelectSeq(StrippedLines(text),
                        LAMBDA l : IsHeader(l) /\ NOfText(Tail(l)) # {})
    IN  [k \in 1..Len(hs) |-> CHOOSE n \in NOfText(Tail(hs[k])) : TRUE]

\* the sentence texts of the "# text = " lines of a text, in file order
TextHeaders(text) ==
    LET ts == SelectSeq(SplitLines(text), IsTextLine)
    IN  [k \in 1..Len(ts) |-> Tail(ts[k])]

Range(f) == {f[k] : k \in DOMAIN f}
MaxOf(S) == CHOOSE m \in S : \A x \in S : x <= m
\* the highest N among the first j headers, 0 if there is none
HighestN(h, j) == MaxOf({0} \cup {h[k] : k \in 1..j})

Total == Len(read_sentences(rawInput))
AppendedThisRun == SubSeq(gold, Len(goldAtStart) + 1, Len(gold))
\* every index this run touched: loop bodies entered, service and validator
\* calls, log files, headers appended
TouchedThisRun ==
    Range(attempted) \cup Range(annotated) \cup Range(validated)
      \cup {f.idx : f \in runLogs} \cup Range(HeaderNums(AppendedThisRun))

\* C1: the gold file is exactly the blocks whose validation returned pass, in
\* the order they passed; nothing else is ever in it (the block that just
\* passed is appended by the next step).
C1_OnlyValidatedRecords ==
    LET n == Len(passed) - (IF pc = "Validated" /\ ok THEN 1 ELSE 0)
    IN  gold = Flatten([j \in 1..n |->
                          GoldBlock(passed[j].idx, passed[j].sent,
                                    passed[j].rec)])

C1_Witness ==
    /\ halt.kind = "invalid"
    /\ override.given
    /\ gold # goldAtStart
    /\ goldAtStart # <<>>

\* C2: once the validator log of sentence k is written, the run is halted at
\* k, the gold file is what it was when k was attempted, no header auto-k
\* was appended in this run and no index above k was touched.
C2_InvalidHaltsRun ==
    \A f \in runLogs :
      f.kind = "val.log" =>
        /\ pc = "Halted"
        /\ halt.kind = "invalid"
        /\ halt.idx = f.idx
        /\ gold = goldBefore
        /\ f.idx \notin Range(HeaderNums(AppendedThisRun))
        /\ \A j \in TouchedThisRun : j <= f.idx
        /\ \A g \in runLogs : g.idx = f.idx

C2_Witness ==
    /\ halt.kind = "invalid"
    /\ halt.idx < Total
    /\ gold # goldAtStart

\* C3: once the exception file of sentence k is written, the run is halted
\* at k, nothing was appended for k, no index above k was touched, and the
\* service was called once per index from the resume index to k.
C3_ExceptionHaltsRun ==
    \A f \in runLogs :
      f.kind = "exception.txt" =>
        /\ pc = "Halted"
        /\ halt.kind = "exception"
        /\ halt.idx = f.idx
        /\ gold = goldBefore
        /\ f.idx \notin Range(HeaderNums(AppendedThisRun))
        /\ \A j \in TouchedThisRun : j <= f.idx
        /\ annotated = [j \in 1..(f.idx - start_from + 1) |->
                          start_from + j - 1]

C3_Witness ==
    /\ halt.kind = "exception"
    /\ halt.reason = "service"
    /\ halt.idx < Total
    /\ gold # goldAtStart

\* C4 as stated: after a run that halted at k, a run without override
\* resumes at k.
C4_Original ==
    (prevRun.ran /\ prevRun.haltIdx > 0 /\ ~override.given) =>
        /\ start_from = prevRun.haltIdx
        /\ attempted # <<>>
        /\ attempted[1] = prevRun.haltIdx

\* C4 amended: after a run without override that halted at k, a run without
\* override resumes at k: k is the first index attempted.
C4_ResumeAtFailed ==
    (prevRun.ran /\ prevRun.haltIdx > 0 /\ ~prevRun.given
       /\ ~override.given) =>
        /\ start_from = prevRun.haltIdx
        /\ attempted # <<>>
        /\ attempted[1] = prevRun.haltIdx

C4_Witness ==
    /\ prevRun.ran
    /\ prevRun.haltIdx = 2
    /\ ~prevRun.given
    /\ ~override.given
    /\ pc = "Annotating"
    /\ i = 2

\* C5 as stated: every header N in the gold file is 1 greater than the
\* highest N before it.
C5_Original ==
    LET h == HeaderNums(gold)
    IN  \A j \in 1..Len(h) : h[j] = HighestN(h, j - 1) + 1

\* C5 amended: in a run without override, every header N appended is 1
\* greater than the highest N before it in the gold file.
C5_NextNWithoutOverride ==
    ~override.given =>
      LET h == HeaderNums(gold)
          before == Len(HeaderNums(goldAtStart))
      IN  \A j \in (before + 1)..Len(h) : h[j] = HighestN(h, j - 1) + 1

C5_Witness ==
    /\ ~override.given
    /\ prevRun.given
    /\ goldAtStart # <<>>
    /\ Len(HeaderNums(gold)) > Len(HeaderNums(goldAtStart))

\* C6: every step leaves the old content of the gold file as a prefix of the
\* new content, and never removes the file.
C6_AppendOnly ==
    [][StartsWith(gold', gold) /\ (goldExists => goldExists')]_vars

C6_Witness ==
    /\ runs = 2
    /\ goldAtStart # <<>>
    /\ gold # goldAtStart
    /\ pc = "Done"

C8_ResumeIndexAndNoOp ==
    pc # "Idle" =>
      LET h == HeaderNums(goldAtStart)
          want == IF override.given THEN override.v
                  ELSE HighestN(h, Len(h)) + 1
          resume == IF want < 1 THEN 1 ELSE want
      IN  /\ start_from = resume
          /\ resume > Total =>
               /\ pc = "Done"
               /\ gold = goldAtStart
               /\ TouchedThisRun = {}
               /\ halt = NoHalt

C8_Witness ==
    /\ pc = "Done"
    /\ override.given
    /\ override.v = Total + 1
    /\ Total = 3
    /\ goldAtStart # <<>>

\* the sentences of the input files, as they should be read
InputSentences == <<<<"a">>, <<"b">>, <<"a">>, <<"b">>, <<"a", "b">>>>

\* C9: a run that ends normally from resume index s has appended headers
\* N = s, s+1, ..., T in that order, one block per sentence, each text
\* header the input sentence of its index, and has written no log file.
C9_HappyPath ==
    (pc = "Done" /\ start_from <= Total) =>
      LET n == Total - start_from + 1
      IN  /\ HeaderNums(AppendedThisRun) =
               [j \in 1..n |-> start_from + j - 1]
          /\ TextHeaders(AppendedThisRun) =
               [j \in 1..n |-> InputSentences[start_from + j - 1]]
          /\ Len(SelectSeq(SplitLines(AppendedThisRun), IsHeader)) = n
          /\ runLogs = {}

C9_Witness ==
    /\ pc = "Done"
    /\ goldAtStart = <<>>
    /\ Total = 3
    /\ HeaderNums(gold) = <<1, 2, 3>>
    /\ runLogs = {}

\* the tab-separated columns of a line
Columns(line) == SplitBy(line, TAB)
IsJInt(t, key) == key \in DOMAIN t /\ t[key].k = "int"
IsJStr(t, key) == key \in DOMAIN t /\ t[key].k = "str"

\* C10: a converted token sequence yields one ten-column line per token, in
\* input order; columns 5, 6, 9 and 10 are "_"; an absent lemma is the
\* lowercased surface form, an absent part of speech "X", an absent head 0,
\* an absent relation "dep"; an integer position or head and a text surface
\* form, lemma, part of speech or relation that is present is copied.
C10_TenColumnsWithDefaults ==
    pc = "Validating" =>
      LET lines == SelectSeq(SplitLines(conllu_str), LAMBDA l : l # <<>>)
      IN  /\ Len(lines) = Len(tokens)
          /\ \A n \in 1..Len(tokens) :
               LET t == tokens[n]
                   c == Columns(lines[n])
               IN  /\ Len(c) = 10
                   /\ c[5] = <<"_">> /\ c[6] = <<"_">>
                   /\ c[9] = <<"_">> /\ c[10] = <<"_">>
                   /\ IsJInt(t, "ID") => c[1] = IntToStr(t["ID"].i)
                   /\ IsJStr(t, "FORM") => c[2] = t["FORM"].s
                   /\ IsJStr(t, "LEMMA") => c[3] = t["LEMMA"].s
                   /\ "LEMMA" \notin DOMAIN t => c[3] = Lower(c[2])
                   /\ IsJStr(t, "UPOS") => c[4] = t["UPOS"].s
                   /\ "UPOS" \notin DOMAIN t => c[4] = <<"X">>
                   /\ IsJInt(t, "HEAD ID") => c[7] = IntToStr(t["HEAD ID"].i)
                   /\ "HEAD ID" \notin DOMAIN t => c[7] = <<"0">>
                   /\ IsJStr(t, "DEPREL") => c[8] = t["DEPREL"].s
                   /\ "DEPREL" \notin DOMAIN t => c[8] = <<"dep">>

C10_Witness ==
    /\ pc = "Validating"
    /\ Len(tokens) = 2
    /\ DOMAIN tokens[1] = {"ID", "FORM"}
    /\ DOMAIN tokens[2] = {"ID", "FORM", "LEMMA", "UPOS", "HEAD ID", "DEPREL"}
    /\ conllu_str =
         <<"1", TAB, "K", "i", TAB, "k", "i", TAB, "X", TAB, "_", TAB, "_",
           TAB, "0", TAB, "dep", TAB, "_", TAB, "_", NL,
           "1", TAB, "K", "i", TAB, "K", "B", TAB, "N", TAB, "_", TAB, "_",
           TAB, "2", TAB, "root", TAB, "_", TAB, "_", NL>>


\* some token of the list has no "ID" key or no "FORM" key
LacksIdOrForm(toks) ==
    \E k \in 1..Len(toks) :
        "ID" \notin DOMAIN toks[k] \/ "FORM" \notin DOMAIN toks[k]

\* C11: when some token of the list lacks ID or FORM, the conversion step
\* produces no CoNLL-U text at all (conllu_str keeps its value, even when
\* well-formed tokens precede the malformed one) and the run halts at the
\* current sentence the way it does on an annotation failure: one exception
\* file for that sentence, nothing appended to the gold file.
C11_MalformedTokenHalts ==
    [][(pc = "Converting" /\ LacksIdOrForm(tokens) /\ pc' # "Converting") =>
         /\ pc' = "Halted"
         /\ conllu_str' = conllu_str
         /\ gold' = gold
         /\ i' = i
         /\ halt' = [idx |-> i, kind |-> "exception", reason |-> "token"]
         /\ runLogs' = runLogs \cup {[idx |-> i, kind |-> "exception.txt"]}
      ]_vars

C11_Witness ==
    /\ pc = "Halted"
    /\ halt = [idx |-> 2, kind |-> "exception", reason |-> "token"]
    /\ Len(tokens) = 2
    /\ {"ID", "FORM"} \subseteq DOMAIN tokens[1]
    /\ "FORM" \notin DOMAIN tokens[2]
    /\ HeaderNums(gold) = <<1>>
    /\ runLogs = {[idx |-> 2, kind |-> "exception.txt"]}

\* C12 as stated: a missing prompt file makes the run fail before the loop
\* body of any sentence is entered: no sentence attempted, no annotation
\* call, no log file of a sentence.
C12_Original ==
    (halt.reason = "prompt") =>
      /\ attempted = <<>>
      /\ annotated = <<>>
      /\ runLogs = {}

\* C12: the prompt file is read when a sentence is annotated; if it is
\* missing then, the failure surfaces inside the loop body of that sentence
\* and is handled as any exception of a sentence: the run halts at that
\* sentence, the sentence's exception file is the one file written, and
\* nothing is appended to the gold file.
C12_MissingPromptHaltsAtSentence ==
    [][(pc = "Annotating" /\ ~promptExists /\ pc' # "Annotating") =>
         /\ pc' = "Halted"
         /\ i \in Range(attempted)
         /\ annotated' = Append(annotated, i)
         /\ halt'.idx = i
         /\ halt'.kind = "exception"
         /\ runLogs' = runLogs \cup {[idx |-> i, kind |-> "exception.txt"]}
         /\ gold' = gold
      ]_vars

C12_Witness ==
    /\ pc = "Halted"
    /\ ~promptExists
    /\ halt = [idx |-> 1, kind |-> "exception", reason |-> "prompt"]
    /\ start_from = 1
    /\ attempted = <<1>>
    /\ annotated = <<1>>
    /\ runLogs = {[idx |-> 1, kind |-> "exception.txt"]}
    /\ gold = <<>>

\* C13: the files a run writes to the log directory all belong to the one
\* sentence the run halted at: none while the run has not failed, exactly
\* the exception file after an exception, exactly the token JSON, the
\* CoNLL-U text and the validator log after a failed validation; no sentence
\* whose block the run appended has a file.
C13_DiagnosticsOnlyForFailed ==
    LET logged == {f.idx : f \in runLogs}
        committed == Range(HeaderNums(AppendedThisRun))
    IN  /\ Cardinality(logged) <= 1
        /\ logged \cap committed = {}
        /\ (pc # "Halted") <=> (halt.kind = "none")
        /\ (halt.kind = "none") => runLogs = {}
        /\ (halt.kind = "exception") =>
              runLogs = {[idx |-> halt.idx, kind |-> "exception.txt"]}
        /\ (halt.kind = "invalid") =>
              runLogs = {[idx |-> halt.idx, kind |-> "json"],
                         [idx |-> halt.idx, kind |-> "conllu"],
                         [idx |-> halt.idx, kind |-> "val.log"]}
        /\ (pc = "Halted") => (halt.idx = i /\ i \notin committed)

C13_Witness ==
    /\ pc = "Halted"
    /\ halt = [idx |-> 2, kind |-> "invalid", reason |-> "validation"]
    /\ HeaderNums(AppendedThisRun) = <<1>>
    /\ Cardinality(runLogs) = 3
    /\ \A f \in runLogs : f.idx = 2

\* the k-th entry of a history is the k-th index counted from the resume index
FromResumeIndex(h) == \A k \in 1..Len(h) : h[k] = start_from + k - 1

\* C14: in a run the loop bodies entered, the annotation calls and the
\* blocks appended are each for the indices s, s+1, ... in that order (s the
\* resume index); when the annotation of sentence j is called, the blocks of
\* all of s..j-1 have been appended in this run; and at most one sentence
\* has been entered without being committed: the one at index i while the
\* run is annotating, converting or validating.
C14_InOrderOneAtATime ==
    LET done == HeaderNums(AppendedThisRun)
    IN  /\ FromResumeIndex(attempted)
        /\ FromResumeIndex(annotated)
        /\ FromResumeIndex(done)
        /\ Len(done) <= Len(annotated)
        /\ Len(annotated) <= Len(attempted)
        /\ Len(attempted) <= Len(done) + 1
        /\ \A k \in 1..Len(annotated) :
              \A j \in start_from..(annotated[k] - 1) : j \in Range(done)
        /\ (pc \in {"Annotating", "Converting", "Validating", "Validated"}) =>
              /\ Len(attempted) = Len(done) + 1
              /\ attempted[Len(attempted)] = i

C14_Witness ==
    /\ pc = "Converting"
    /\ start_from = 1
    /\ i = 3
    /\ annotated = <<1, 2, 3>>
    /\ HeaderNums(AppendedThisRun) = <<1, 2>>

\* C15: as long as no run has been given --start-from, the header lines of
\* the gold file (missing at first) are auto-1, auto-2, ..., auto-m in that
\* order with m at most the number of input sentences, no number missing
\* and none twice, and the k-th text line is input sentence k.
C15_GaplessWithoutOverride ==
    (~overrideUsed) =>
      LET h == HeaderNums(gold)
          t == TextHeaders(gold)
      IN  /\ Len(SelectSeq(StrippedLines(gold), IsHeader)) = Len(h)
          /\ Len(h) <= Total
          /\ \A k \in 1..Len(h) : h[k] = k
          /\ Len(t) = Len(h)
          /\ \A k \in 1..Len(t) : t[k] = InputSentences[k]

C15_Witness ==
    /\ ~overrideUsed
    /\ runs = 2
    /\ prevRun.haltIdx = 2
    /\ pc = "Done"
    /\ HeaderNums(goldAtStart) = <<1>>
    /\ HeaderNums(gold) = <<1, 2, 3>>
    /\ TextHeaders(gold) = <<<<"a">>, <<"b">>, <<"a">>>>

=============================================================================
